---- MODULE Spec2Model ----
(***************************************************************************)
(* Request.get of widukind_sdmx: cache lookup, URL / parameter building    *)
(* from the agency registry, retrieval through the Transport, archive      *)
(* unwrapping, parsing, the footer-redirect retry loop (a recursive call   *)
(* of get), writer selection and cache store.                              *)
(*                                                                         *)
(* Python values: None is the string None for string-valued arguments; a   *)
(* dict is a set of <<key, value>> pairs; an argument that is a dict or    *)
(* None is <<>> for None and <<d>> for the dict d; a tuple is a sequence.  *)
(***************************************************************************)
EXTENDS Integers, Sequences, FiniteSets, TLC

VARIABLES
    agency,       \* self.agency, fixed at construction
    cache,        \* self.cache: token -> Response
    callerParams, \* the dict object the caller passes as params (aliased)
    params0,      \* that dict when the running top-level call was made
    stack,        \* activation records of get, innermost last; a finished
                  \* top-level call stays, with its outcome, until Return
    open,         \* kinds of the byte streams the running call holds open
    obs,          \* what the running top-level call has done so far
    req,          \* arguments of the latest Transport invocation
    cache0,       \* self.cache when the running top-level call was made
    returned,     \* token -> id of the first status-200 Response returned for it
    calls,        \* number of top-level calls made
    dicts         \* content of the header mappings a call can reach: the
                  \* default of the signature, shared by all calls, the
                  \* registry's overrides and the caller's own mapping

vars == <<agency, cache, callerParams, params0, stack, open, obs, req, cache0,
          returned, calls, dicts>>

(***************************************************************************)
(* Bounds of the model.                                                    *)
(***************************************************************************)
MaxCalls == 2
MaxDepth == 2

(***************************************************************************)
(* Python values.                                                          *)
(***************************************************************************)
None == "None"
Truthy(s) == s # None /\ s # ""
NoneDict == <<>>
Dict(d) == <<d>>
ParamsRef == <<"callerParams">>
TruthyDict(h) == h # NoneDict /\ h[1] # {}
Has(d, k) == \E p \in d : p[1] = k
Put(d, k, v) == {p \in d : p[1] # k} \cup {<<k, v>>}
Str(s) == [isStr |-> TRUE, id |-> s]
Obj(s) == [isStr |-> FALSE, id |-> s]
KeyStr(s) == [isDict |-> FALSE, v |-> s]
KeyDict(s) == [isDict |-> TRUE, v |-> s]

(***************************************************************************)
(* The agency registry.                                                    *)
(***************************************************************************)
WIDUKIND_API_URL == "http://widukind-api.cepremap.org/api/v1/sdmx"

WIDUKIND_RESOURCES ==
    [rt \in {"data"} |->
        [headers |-> {<<"Accept", "application/vnd.sdmx.genericdata+xml;version=2.1">>}]]

NoResources == [rt \in {} |-> [headers |-> {}]]

_agencies ==
    [c \in {"", "ESTAT", "ECB", "SGR", "INSEE", "EUROSTAT", "ESRI", "FED", "OECD",
            "IMF", "BIS"} |->
        CASE c = "" -> <<>>
          [] c = "ESTAT" ->
                <<[url |-> "http://ec.europa.eu/eurostat/SDMX/diss-web/rest",
                   resources |-> NoResources]>>
          [] c = "SGR" ->
                <<[url |-> "https://registry.sdmx.org/ws/rest",
                   resources |-> NoResources]>>
          [] OTHER ->
                <<[url |-> WIDUKIND_API_URL, resources |-> WIDUKIND_RESOURCES]>>]

\* self._resources, inherited from pandasdmx.api.Request
_resources == {"data", "dataflow", "datastructure", "categoryscheme", "codelist"}

\* get_footer_url=(30, 3)
DefaultFooterUrl == <<30, 3>>

(***************************************************************************)
(* URL / parameter building, lines 156-213.                                *)
(***************************************************************************)
RECURSIVE JoinUnfiltered(_)
\* a join that keeps the empty segments
JoinUnfiltered(parts) ==
    IF parts = <<>> THEN ""
    ELSE IF Len(parts) = 1 THEN Head(parts)
    ELSE Head(parts) \o "/" \o JoinUnfiltered(Tail(parts))

RECURSIVE Join(_)
\* '/'.join(filter(None, parts))
Join(parts) ==
    IF parts = <<>> THEN ""
    ELSE LET rest == Join(Tail(parts))
         IN  IF ~Truthy(Head(parts)) THEN rest
             ELSE IF rest = "" THEN Head(parts)
             ELSE Head(parts) \o "/" \o rest

\* defaults that replace what the caller set
DefaultReferencesOverwriting(params, resource_type, resource_id) ==
    IF resource_type \in {"dataflow", "datastructure"} /\ Truthy(resource_id)
    THEN Put(params, "references", "all")
    ELSE IF resource_type = "categoryscheme"
         THEN Put(params, "references", "parentsandsiblings")
    ELSE params

\* lines 202-207: the default `references` of a registry-built URL
DefaultReferences(params, resource_type, resource_id) ==
    IF Has(params, "references") THEN params
    ELSE IF resource_type \in {"dataflow", "datastructure"} /\ Truthy(resource_id)
         THEN Put(params, "references", "all")
    ELSE IF resource_type = "categoryscheme"
         THEN Put(params, "references", "parentsandsiblings")
    ELSE params

\* agency headers that replace the caller's
AgencyHeadersAlways(headers, fromfile, agency_, resource_type) ==
    IF Truthy(fromfile) THEN [err |-> "", headers |-> headers]
    ELSE IF agency_ \notin DOMAIN _agencies THEN [err |-> "KeyError", headers |-> headers]
    ELSE IF _agencies[agency_] = <<>> THEN [err |-> "TypeError", headers |-> headers]
    ELSE LET resources == _agencies[agency_][1].resources
         IN  IF resource_type \in DOMAIN resources
             THEN [err |-> "", headers |-> Dict(resources[resource_type].headers)]
             ELSE [err |-> "", headers |-> headers]

\* lines 183-188: http headers from the agency configuration
AgencyHeaders(headers, fromfile, agency_, resource_type) ==
    IF Truthy(fromfile) \/ TruthyDict(headers) THEN [err |-> "", headers |-> headers]
    ELSE IF agency_ \notin DOMAIN _agencies THEN [err |-> "KeyError", headers |-> headers]
    ELSE IF _agencies[agency_] = <<>> THEN [err |-> "TypeError", headers |-> headers]
    ELSE LET resources == _agencies[agency_][1].resources
         IN  IF resource_type \in DOMAIN resources
             THEN [err |-> "", headers |-> Dict(resources[resource_type].headers)]
             ELSE [err |-> "", headers |-> headers]

Target(err, base_url, params, headers, pdict, did) ==
    [err |-> err, base_url |-> base_url, params |-> params, headers |-> headers,
     pdict |-> pdict, did |-> did]

\* lines 196-213: the URL and the default parameters; key is a resolved key record
BuildUrl(a, self_agency, agency_, rid, key, params, headers, pdict, did) ==
    IF Truthy(self_agency)
    THEN IF key.isDict
         THEN Target("TypeError", "", Dict(params), headers, pdict, did \cup {"registry"})
         ELSE LET base_url == Join(<<_agencies[self_agency][1].url, a.resource_type,
                                     agency_, rid, key.v>>)
                  p == DefaultReferences(params, a.resource_type, rid)
              IN  Target("", base_url, Dict(p), headers,
                         IF a.params = NoneDict THEN pdict ELSE p,
                         did \cup {"registry", "references"})
    ELSE IF Truthy(a.fromfile)
         THEN Target("", "", Dict(params), headers, pdict, did)
    ELSE Target("AmbiguousTarget", "", Dict(params), headers, pdict, did)

\* an explicit url that still gets the default `references`
ExplicitTargetWithDefaults(a, pdict) ==
    LET p == DefaultReferences(IF a.params = NoneDict THEN {} ELSE pdict,
                               a.resource_type, a.resource_id.id)
    IN  Target("", a.url, Dict(p), a.headers, IF a.params = NoneDict THEN pdict ELSE p,
               {"references"})

\* lines 156-157: an explicit url is the target as it is
ExplicitTarget(a, pdict) ==
    Target("", a.url, IF a.params = NoneDict THEN NoneDict ELSE Dict(pdict),
           a.headers, pdict, {})

\* a validation that does not look at fromfile
InvalidResourceWithFile(fromfile, resource_type) == resource_type \notin _resources

\* line 166: not fromfile and resource_type not in self._resources
InvalidResource(fromfile, resource_type) ==
    ~Truthy(fromfile) /\ resource_type \notin _resources

\* lines 156-213; mk is what self._make_key does when it is called
Resolve(a, self_agency, pdict, mk) ==
    IF Truthy(a.url) THEN ExplicitTarget(a, pdict)
    ELSE
    LET params == IF a.params = NoneDict THEN {} ELSE pdict
        agency_ == IF Truthy(a.agency) THEN a.agency ELSE self_agency
        rid == a.resource_id.id
        resolves == a.resource_type = "data" /\ a.key.isDict
        key == IF resolves /\ mk.ok THEN KeyStr(mk.v) ELSE a.key
        looks == ~(Truthy(a.fromfile) \/ TruthyDict(a.headers))
        did == {"validate"} \cup (IF resolves THEN {"key"} ELSE {})
        hd == AgencyHeaders(a.headers, a.fromfile, agency_, a.resource_type)
    IN  IF InvalidResource(a.fromfile, a.resource_type)
        THEN Target("InvalidResourceType", "", Dict(params), a.headers, pdict, {"validate"})
        ELSE IF resolves /\ ~mk.ok
        THEN Target("InvalidKeyDimension", "", Dict(params), a.headers, pdict, did)
        ELSE IF hd.err # ""
        THEN Target(hd.err, "", Dict(params), a.headers, pdict,
                    did \cup {"registry"})
        ELSE BuildUrl(a, self_agency, agency_, rid, key, params, hd.headers, pdict,
                      IF looks THEN did \cup {"registry"} ELSE did)

(***************************************************************************)
(* The collaborators: what the Transport, the message reader, the file     *)
(* system, remote.is_url and self._make_key can answer.                    *)
(***************************************************************************)
PayloadLen == 2
StatusCodes == {200, 202}
FooterUrlA == "http://ec.europa.eu/eurostat/async/1.zip"
FooterUrlB == "http://ec.europa.eu/eurostat/async/2.zip"

\* remote.is_url
is_url(line) == line \in {FooterUrlA, FooterUrlB}

\* self.client.get returns (source, url, resp_headers, status_code)
TransportResponses ==
    [kind : {"plain", "zip"}, pos : {0, PayloadLen}, url : {"http://final"},
     headers : {{<<"Content-Type", "application/xml">>}}, status_code : StatusCodes]

\* the answers of a Transport that serves one plain document
PlainResponses == {r \in TransportResponses : r.kind = "plain" /\ r.pos = PayloadLen}

NoMsg == [hasFooter |-> FALSE, footer |-> <<>>, hasData |-> FALSE]

\* messages whose footer, if any, has no URL line
PlainMessages ==
    {[hasFooter |-> FALSE, footer |-> <<>>, hasData |-> TRUE],
     [hasFooter |-> FALSE, footer |-> <<>>, hasData |-> FALSE],
     [hasFooter |-> TRUE, footer |-> <<"Dataset too large">>, hasData |-> FALSE]}

\* messages whose footer points to the real resource
FooterMessages ==
    {[hasFooter |-> TRUE, footer |-> <<"Dataset too large", FooterUrlA, FooterUrlB>>,
      hasData |-> FALSE],
     [hasFooter |-> TRUE, footer |-> <<FooterUrlB>>, hasData |-> TRUE]}

Messages == PlainMessages \cup FooterMessages

MakeKeyOutcomes == {[ok |-> TRUE, v |-> "A.FR"], [ok |-> FALSE, v |-> ""]}

(***************************************************************************)
(* Activation records.                                                     *)
(***************************************************************************)
NoResponse == [id |-> 0]
Ret(r) == [ret |-> TRUE, r |-> r, err |-> ""]
Raise(e) == [ret |-> FALSE, r |-> NoResponse, err |-> e]
NoOutcome == [ret |-> FALSE, r |-> NoResponse, err |-> ""]

\* the signature defaults, lines 79-82
DefaultArgs ==
    [resource_type |-> "", resource_id |-> Str(""), agency |-> "", key |-> KeyStr(""),
     params |-> NoneDict, headers |-> Dict({}), fromfile |-> None, tofile |-> None,
     url |-> None, get_footer_url |-> DefaultFooterUrl, memcache |-> None,
     writer |-> None]

\* the mapping the name headers is bound to when a call starts
HeadersRef(a) ==
    IF a.headers = NoneDict THEN "none"
    ELSE IF a.headers = DefaultArgs.headers THEN "shared"
    ELSE "caller"

Frame(a) ==
    [a |-> a, pc |-> "start", base_url |-> "", params |-> NoneDict,
     headers |-> a.headers, href |-> HeadersRef(a), sid |-> 0, kind |-> "none", cur |-> "none", pos |-> 0,
     url |-> None, resp_headers |-> {}, status_code |-> 0, msg |-> NoMsg,
     footer_url |-> "", i |-> 0, nsleep |-> 0, slept |-> 0,
     ncall |-> 0, caught |-> 0, got |-> NoResponse, out |-> NoOutcome]

\* Transport invocations and sleeps are counted; did holds the other steps taken
NoObs == [transport |-> 0, sleep |-> 0, wrote |-> 0, did |-> {}]
NoReq == [url |-> None, params |-> NoneDict, headers |-> NoneDict, fromfile |-> None]

Top == stack[Len(stack)]
Running == stack # <<>> /\ Top.pc # "done"
SetTop(f) == [stack EXCEPT ![Len(stack)] = f]

\* a loop that makes one attempt too few
LoopOrSelectOneShort(f) ==
    [f EXCEPT !.pc = IF f.i + 1 < f.a.get_footer_url[2] THEN "loop" ELSE "select"]

\* line 252: for a in range(attempts)
LoopOrSelect(f) ==
    [f EXCEPT !.pc = IF f.i < f.a.get_footer_url[2] THEN "loop" ELSE "select"]

\* The innermost call ends with outcome o.  A top-level call is over; a call made
\* at line 255 hands a Response to its caller's return, and an exception to the
\* except clause of line 256, which goes on with the loop.
Finish(stk, o) ==
    LET n == Len(stk)
    IN  IF n = 1 THEN <<[stk[1] EXCEPT !.pc = "done", !.out = o]>>
        ELSE LET p == stk[n - 1]
                 q == IF o.ret THEN [p EXCEPT !.pc = "returned", !.got = o.r]
                      ELSE LoopOrSelect([p EXCEPT !.i = @ + 1, !.caught = @ + 1])
             IN  SubSeq(stk, 1, n - 2) \o <<q>>

\* the first status-200 Response a top-level call returned for each token
Record(stk, o) ==
    IF Len(stk) = 1 /\ o.ret /\ o.r.status_code = 200
       /\ Truthy(stk[1].a.memcache) /\ stk[1].a.memcache \notin DOMAIN returned
    THEN (stk[1].a.memcache :> o.r.id) @@ returned
    ELSE returned

(***************************************************************************)
(* The operations.                                                         *)
(***************************************************************************)
\* the header mappings before any call: the default headers={} of line 80 and
\* the overrides of line 19
NoDicts ==
    [shared |-> DefaultArgs.headers[1], registry |-> WIDUKIND_RESOURCES["data"].headers,
     caller |-> {}]

Start(agencies) ==
    /\ agency \in agencies
    /\ dicts = NoDicts
    /\ cache = <<>>
    /\ callerParams = {}
    /\ params0 = {}
    /\ stack = <<>>
    /\ open = {}
    /\ obs = NoObs
    /\ req = NoReq
    /\ cache0 = <<>>
    /\ returned = <<>>
    /\ calls = 0

\* the dicts a caller passes as params
ParamDicts == {{}, {<<"references", "children">>}}

\* a call that omits headers finds the shared default in the state it is in
Bound(a, d) ==
    IF HeadersRef(a) = "shared" THEN [a EXCEPT !.headers = Dict(d.shared)] ELSE a

\* A caller calls get with arguments a; a dict passed as params is a new one or
\* the one passed before.
Call(A) ==
    /\ stack = <<>>
    /\ calls < MaxCalls
    /\ \E a \in A :
        /\ stack' = <<Frame(Bound(a, dicts))>>
        /\ dicts' = [dicts EXCEPT !.caller = IF HeadersRef(a) = "caller"
                                             THEN a.headers[1] ELSE {}]
        /\ IF a.params = NoneDict THEN callerParams' = callerParams
           ELSE callerParams' \in ParamDicts \cup {callerParams}
    /\ params0' = callerParams'
    /\ calls' = calls + 1
    /\ cache0' = cache
    /\ UNCHANGED <<agency, cache, open, obs, req, returned>>

\* The caller has the outcome of its call; what the call did is forgotten.
Return ==
    /\ stack # <<>>
    /\ Top.pc = "done"
    /\ stack' = <<>>
    /\ open' = {}
    /\ obs' = NoObs
    /\ req' = NoReq
    /\ cache0' = cache
    /\ params0' = callerParams
    /\ dicts' = [dicts EXCEPT !.caller = {}]
    /\ UNCHANGED <<agency, cache, callerParams, returned, calls>>

\* a lookup that never finds the token
InCacheSkipped(memcache, c) == FALSE

\* line 153
InCache(memcache, c) == memcache \in DOMAIN c

\* headers.update(...): the mapping headers was bound to takes the overrides
UpdatedInPlace(d, href, overrides) ==
    IF href \in DOMAIN d THEN [d EXCEPT ![href] = @ \cup overrides] ELSE d

\* line 188: headers = resource_cfg.get('headers') or {} binds the name to the
\* registry's mapping; the mapping it was bound to keeps its content
Rebound(d, href, overrides) == d

\* lines 152-213: the cache lookup, then the URL, parameters and headers
Build ==
    /\ Running
    /\ Top.pc = "start"
    /\ IF InCache(Top.a.memcache, cache)
       THEN /\ stack' = Finish(stack, Ret(cache[Top.a.memcache]))
            /\ returned' = Record(stack, Ret(cache[Top.a.memcache]))
            /\ UNCHANGED <<callerParams, obs, dicts>>
       ELSE \E mk \in MakeKeyOutcomes :
            LET t == Resolve(Top.a, agency, callerParams, mk)
            IN  /\ obs' = [obs EXCEPT !.did = @ \cup t.did]
                /\ callerParams' = t.pdict
                /\ returned' = returned
                /\ dicts' = IF t.headers = Top.headers THEN dicts
                            ELSE Rebound(dicts, Top.href, t.headers[1])
                /\ stack' = IF t.err # "" THEN Finish(stack, Raise(t.err))
                            ELSE SetTop([Top EXCEPT !.pc = "request",
                                                    !.base_url = t.base_url,
                                                    !.params = t.params,
                                                    !.headers = t.headers,
                                                    !.href = IF t.headers = Top.headers
                                                             THEN @ ELSE "registry"])
    /\ UNCHANGED <<agency, params0, cache, open, req, cache0, calls>>

\* lines 216-221: self.client.get
Fetch(R) ==
    /\ Running
    /\ Top.pc = "request"
    /\ obs' = [obs EXCEPT !.transport = @ + 1]
    /\ req' = [url |-> Top.base_url, params |-> Top.params, headers |-> Top.headers,
               fromfile |-> Top.a.fromfile]
    /\ \/ /\ stack' = Finish(stack, Raise("TransportError"))
          /\ open' = open
       \/ \E resp \in R :
          /\ stack' = SetTop([Top EXCEPT !.pc = "fetched",
                                         !.sid = obs.transport + 1,
                                         !.kind = resp.kind, !.cur = resp.kind,
                                         !.pos = resp.pos, !.url = resp.url,
                                         !.resp_headers = resp.headers,
                                         !.status_code = resp.status_code])
          /\ open' = open \cup {resp.kind}
    /\ UNCHANGED <<agency, dicts, params0, cache, callerParams, cache0, returned, calls>>

\* line 223: what leaving `with source:` closes
Closed(f) == {f.kind}

\* a seek that leaves the position where it is
SeekNoop(pos, to) == pos

\* source.seek(0), lines 227, 229 and 238: the position of the stream afterwards
Seek(pos, to) == to

\* lines 224-229: write the payload, read from the start to the end of the
\* stream, to tofile
ToFile ==
    /\ Running
    /\ Top.pc = "fetched"
    /\ IF Truthy(Top.a.tofile)
       THEN \/ /\ stack' = SetTop([Top EXCEPT !.pc = "unwrap",
                                               !.pos = Seek(PayloadLen, 0)])
               /\ obs' = [obs EXCEPT !.did = @ \cup {"write"},
                                     !.wrote = PayloadLen - Seek(Top.pos, 0)]
               /\ open' = open
            \/ /\ stack' = Finish(stack, Raise("IOError"))
               /\ open' = open \ Closed(Top)
               /\ obs' = obs
       ELSE /\ stack' = SetTop([Top EXCEPT !.pc = "unwrap"])
            /\ UNCHANGED <<obs, open>>
    /\ UNCHANGED <<agency, dicts, params0, cache, callerParams, req, cache0, returned, calls>>

\* lines 230-238: is_zipfile moves the position; an archive is replaced by a
\* stream over its first member, another stream is rewound
Unwrap ==
    /\ Running
    /\ Top.pc = "unwrap"
    /\ IF Top.kind = "zip"
       THEN /\ stack' = SetTop([Top EXCEPT !.pc = "parse", !.cur = "member", !.pos = 0])
            /\ open' = open \cup {"member"}
       ELSE /\ \E probed \in {0, PayloadLen} :
                stack' = SetTop([Top EXCEPT !.pc = "parse", !.pos = Seek(probed, 0)])
            /\ open' = open
    /\ UNCHANGED <<agency, dicts, params0, cache, callerParams, obs, req, cache0, returned, calls>>

\* line 239 and the end of `with source:`
Parse(M) ==
    /\ Running
    /\ Top.pc = "parse"
    /\ obs' = [obs EXCEPT !.did = @ \cup {"parse"}]
    /\ open' = open \ Closed(Top)
    /\ \/ stack' = Finish(stack, Raise("ParseError"))
       \/ \E m \in (IF Len(stack) > MaxDepth THEN M \cap PlainMessages ELSE M) :
            stack' = SetTop([Top EXCEPT !.pc = "footer", !.msg = m, !.kind = "none",
                                        !.cur = "none", !.pos = 0])
    /\ UNCHANGED <<agency, dicts, params0, cache, callerParams, req, cache0, returned, calls>>

RECURSIVE FooterUrlsReversed(_)
\* the URL lines of a footer, last first
FooterUrlsReversed(text) ==
    IF text = <<>> THEN <<>>
    ELSE FooterUrlsReversed(Tail(text))
            \o (IF is_url(Head(text)) THEN <<Head(text)>> ELSE <<>>)

RECURSIVE FooterUrls(_)
\* lines 244-245: [i for i in msg.footer.text if remote.is_url(i)]
FooterUrls(text) ==
    IF text = <<>> THEN <<>>
    ELSE IF is_url(Head(text)) THEN <<Head(text)>> \o FooterUrls(Tail(text))
    ELSE FooterUrls(Tail(text))

\* lines 241-251
Footer ==
    /\ Running
    /\ Top.pc = "footer"
    /\ LET url_l == FooterUrls(Top.msg.footer)
       IN  stack' = IF Top.a.get_footer_url # <<>> /\ Top.msg.hasFooter /\ url_l # <<>>
                    THEN SetTop(LoopOrSelect([Top EXCEPT !.footer_url = url_l[1],
                                                         !.i = 0]))
                    ELSE SetTop([Top EXCEPT !.pc = "select"])
    /\ UNCHANGED <<agency, dicts, params0, cache, callerParams, open, obs, req, cache0, returned, calls>>

\* line 253
Sleep ==
    /\ Running
    /\ Top.pc = "loop"
    /\ stack' = SetTop([Top EXCEPT !.pc = "slept", !.nsleep = @ + 1,
                                   !.slept = @ + Top.a.get_footer_url[1]])
    /\ obs' = [obs EXCEPT !.sleep = @ + 1]
    /\ UNCHANGED <<agency, dicts, params0, cache, callerParams, open, req, cache0, returned, calls>>

\* a retry that hands the caller's token on
NestedArgsWithToken(f) ==
    [DefaultArgs EXCEPT !.tofile = f.a.tofile, !.url = f.footer_url,
                        !.headers = f.headers, !.memcache = f.a.memcache]

\* a retry that asks for the original target again
NestedArgsOriginalUrl(f) ==
    [DefaultArgs EXCEPT !.tofile = f.a.tofile, !.url = f.base_url,
                        !.headers = f.headers]

\* line 255: self.get(tofile=tofile, url=footer_url, headers=headers)
NestedArgs(f) ==
    [DefaultArgs EXCEPT !.tofile = f.a.tofile, !.url = f.footer_url,
                        !.headers = f.headers]

\* line 255, the call
Attempt ==
    /\ Running
    /\ Top.pc = "slept"
    /\ stack' = SetTop([Top EXCEPT !.pc = "await", !.ncall = @ + 1])
                    \o <<[Frame(NestedArgs(Top)) EXCEPT !.href = Top.href]>>
    /\ UNCHANGED <<agency, dicts, params0, cache, callerParams, open, obs, req, cache0, returned, calls>>

\* line 255, the return
ReturnNested ==
    /\ Running
    /\ Top.pc = "returned"
    /\ stack' = Finish(stack, Ret(Top.got))
    /\ returned' = Record(stack, Ret(Top.got))
    /\ UNCHANGED <<agency, dicts, params0, cache, callerParams, open, obs, req, cache0, calls>>

\* lines 260-264
SelectWriter(writer, msg) ==
    IF Truthy(writer) THEN writer
    ELSE IF msg.hasData THEN "pandasdmx.writer.data2pandas"
    ELSE "pandasdmx.writer.structure2pd"

\* a call that never stores
StoresNothing(memcache, status_code) == FALSE

\* a store that does not look at the status code
StoresAnyStatus(memcache, status_code) == Truthy(memcache)

\* line 267
Stores(memcache, status_code) == Truthy(memcache) /\ status_code = 200

\* lines 259-269
Assemble ==
    /\ Running
    /\ Top.pc = "select"
    /\ LET r == [id |-> calls, msg |-> Top.msg, src |-> Top.sid, url |-> Top.url,
                 headers |-> Top.resp_headers, status_code |-> Top.status_code,
                 writer |-> SelectWriter(Top.a.writer, Top.msg)]
       IN  /\ cache' = IF Stores(Top.a.memcache, r.status_code)
                       THEN (Top.a.memcache :> r) @@ cache
                       ELSE cache
           /\ stack' = Finish(stack, Ret(r))
           /\ returned' = Record(stack, Ret(r))
    /\ UNCHANGED <<agency, dicts, params0, callerParams, open, obs, req, cache0, calls>>

(***************************************************************************)
(* The calls of the pipeline specification: every path after the           *)
(* Transport, on a few targets.                                            *)
(***************************************************************************)
FooterSettings == {<<>>, <<5, 0>>, <<5, 1>>, <<7, 2>>}
ExplicitUrl == "http://example.org/sdmx/data/GDP"

\* the retry settings and tofile, on an explicit URL
RetryArgs ==
    {[DefaultArgs EXCEPT !.url = ExplicitUrl, !.tofile = tf, !.get_footer_url = g] :
        tf \in {None, "out.xml"}, g \in FooterSettings}

\* the cache token and the writer, on an explicit URL, a registry URL and an
\* invalid resource type
CacheArgs ==
    {[DefaultArgs EXCEPT !.url = u, !.resource_type = rt, !.resource_id = Str("GDP"),
                         !.get_footer_url = g, !.memcache = m, !.writer = w] :
        u \in {None, ExplicitUrl}, rt \in {"", "data"}, g \in {<<>>, <<5, 1>>},
        m \in {None, "t1", "t2"}, w \in {None, "mywriter"}}

PipelineArgs == RetryArgs \cup CacheArgs

Init == Start({"", "ECB"})

Next ==
    \/ Call(PipelineArgs)
    \/ Return
    \/ Build
    \/ Fetch(TransportResponses)
    \/ ToFile
    \/ Unwrap
    \/ Parse(Messages)
    \/ Footer
    \/ Sleep
    \/ Attempt
    \/ ReturnNested
    \/ Assemble

Spec == Init /\ [][Next]_vars

(***************************************************************************)
(* The calls of the building specification: every combination of the       *)
(* arguments that lines 152-219 read, against a Transport that serves one  *)
(* plain document.                                                         *)
(***************************************************************************)
BuildArgs ==
    {[DefaultArgs EXCEPT !.resource_type = rt, !.resource_id = rid, !.agency = ag,
                         !.key = k, !.params = p, !.headers = h, !.fromfile = ff,
                         !.url = u] :
        rt \in {"", "bogus", "data", "dataflow", "datastructure", "categoryscheme",
                "codelist"},
        rid \in {Str(""), Str("GDP"), Obj("DF")},
        ag \in {"", "ECB", "XYZ"},
        k \in {KeyStr(""), KeyStr("A.FR"), KeyDict("FREQ=A,REF_AREA=FR")},
        p \in {NoneDict, ParamsRef},
        h \in {NoneDict, Dict({}), Dict({<<"Accept", "text/xml">>})},
        ff \in {None, "in.xml"},
        u \in {None, ExplicitUrl}}

InitBuild == Start({"", "ESTAT", "ECB"})

NextBuild ==
    \/ Call(BuildArgs)
    \/ Return
    \/ Build
    \/ Fetch(PlainResponses)
    \/ ToFile
    \/ Unwrap
    \/ Parse({[hasFooter |-> FALSE, footer |-> <<>>, hasData |-> TRUE]})
    \/ Footer
    \/ Assemble

SpecBuild == InitBuild /\ [][NextBuild]_vars

(***************************************************************************)
(* The properties.                                                         *)
(***************************************************************************)
Done == stack # <<>> /\ stack[1].pc = "done"
Acted == stack # <<>> /\ stack[1].pc # "start"
Attempts(f) == f.a.get_footer_url[2]
Seconds(f) == f.a.get_footer_url[1]

\* the first URL-shaped line of a footer, in footer order
FirstUrlLine(text) ==
    text[CHOOSE j \in 1..Len(text) :
            is_url(text[j]) /\ \A m \in 1..(j - 1) : ~is_url(text[m])]

\* C1: once a call made with token t has returned a status-200 Response, a later
\* call with t makes no Transport invocation and returns that same Response.
C1_LaterCallsReturnTheSameResponse ==
    (stack # <<>> /\ stack[1].a.memcache \in DOMAIN returned
        /\ returned[stack[1].a.memcache] < calls)
    => /\ obs.transport = 0
       /\ Done => /\ stack[1].out.ret
                  /\ stack[1].out.r.id = returned[stack[1].a.memcache]

\* C2: a call whose token is a key of the cache returns the cached Response and
\* does nothing else: no validation, no URL building, no Transport invocation,
\* no file write, no parse, no sleep, no change of the cache.
C2_CacheHitBypassesThePipeline ==
    (Acted /\ stack[1].a.memcache \in DOMAIN cache0)
    => /\ Len(stack) = 1
       /\ stack[1].pc = "done"
       /\ stack[1].out = Ret(cache0[stack[1].a.memcache])
       /\ obs = NoObs
       /\ req = NoReq
       /\ open = {}
       /\ cache = cache0
       /\ callerParams = params0

\* a cache hit of a call whose resource type is invalid and that gives no url
C2_Witness ==
    /\ Done
    /\ stack[1].a.memcache \in DOMAIN cache0
    /\ stack[1].a.resource_type = ""
    /\ stack[1].a.url = None
    /\ stack[1].out.ret

\* C3: in every invocation of get, each attempt's sleep, of the configured wait,
\* precedes that attempt's retrieval, the retrieval is of the first URL-shaped
\* footer line, and the first attempt that does not raise ends the loop: its
\* Response is what get returns.  With a first attempt that succeeds this is
\* one sleep and one retrieval.
C3_FirstSuccessfulAttemptIsReturned ==
    \A k \in 1..Len(stack) :
        LET f == stack[k]
        IN  /\ f.slept = f.nsleep * (IF f.nsleep = 0 THEN 0 ELSE Seconds(f))
            /\ f.pc = "loop" => f.nsleep = f.i /\ f.ncall = f.i
            /\ f.pc = "slept" => f.nsleep = f.i + 1 /\ f.ncall = f.i
            /\ f.pc \in {"await", "returned"} =>
                    /\ f.nsleep = f.i + 1 /\ f.ncall = f.i + 1 /\ f.caught = f.i
                    /\ f.i < Attempts(f)
            /\ f.pc = "await" =>
                    /\ k < Len(stack)
                    /\ stack[k + 1].a.url = FirstUrlLine(f.msg.footer)
            /\ f.pc = "returned" => k = Len(stack) /\ f.got.src > f.sid
            /\ (f.pc = "done" /\ f.ncall > f.caught) =>
                    /\ f.out = Ret(f.got)
                    /\ f.got.src > f.sid
                    /\ f.ncall = f.caught + 1 /\ f.nsleep = f.ncall

\* get returns the Response of a first attempt, after one sleep and one retrieval
C3_Witness ==
    /\ Done
    /\ stack[1].a.get_footer_url = <<7, 2>>
    /\ stack[1].ncall = 1 /\ stack[1].caught = 0
    /\ stack[1].out.ret
    /\ obs.sleep = 1 /\ obs.transport = 2
    /\ stack[1].slept = 7

\* C4: when every attempt to retrieve the footer URL raises, get makes exactly
\* the configured number of attempts, each after one sleep, catches every
\* failure and returns without raising.
C4_ExhaustionDoesNotRaise ==
    \A k \in 1..Len(stack) :
        LET f == stack[k]
        IN  /\ f.caught <= f.ncall
            /\ f.ncall <= (IF f.footer_url = "" THEN 0 ELSE Attempts(f))
            /\ (f.footer_url # "" /\ f.pc = "select") =>
                    /\ f.caught = Attempts(f)
                    /\ f.ncall = Attempts(f)
                    /\ f.nsleep = Attempts(f)
            /\ (f.footer_url # "" /\ f.pc = "done" /\ f.caught = f.ncall) =>
                    /\ f.out.ret
                    /\ f.caught = Attempts(f)
                    /\ f.nsleep = Attempts(f)

\* two attempts raised and get returned
C4_Witness ==
    /\ Done
    /\ stack[1].a.get_footer_url = <<7, 2>>
    /\ stack[1].caught = 2
    /\ stack[1].nsleep = 2
    /\ stack[1].out.ret

\* C5: a call made with get_footer_url=(wait, n) sleeps, and retrieves footer
\* URLs, at most n times before it returns, whatever the Transport and the
\* reader answer.
C5_AtMostNAttempts ==
    stack # <<>> =>
        obs.sleep <= (IF stack[1].a.get_footer_url = <<>> THEN 0 ELSE Attempts(stack[1]))

\* C6: when a call returns or raises, every byte stream it acquired is closed.
C6_EverySourceIsClosed ==
    Done => open = {}

\* the params the caller passed, as the call found them
CallerParams(f) == IF f.a.params = NoneDict THEN NoneDict ELSE Dict(params0)
Requested == stack # <<>> /\ Len(stack) = 1 /\ obs.transport >= 1
PipelineErrors == {"TransportError", "IOError", "ParseError"}

\* C7: with a non-empty explicit url and no cache hit, the Transport is invoked
\* with that url and with the caller's params and headers as they are; the
\* resource type is not validated, no key is resolved, the registry is not
\* consulted and no default `references` is set.
C7_ExplicitUrlIsUsedVerbatim ==
    (Acted /\ Len(stack) = 1 /\ Truthy(stack[1].a.url)
           /\ stack[1].a.memcache \notin DOMAIN cache0)
    => LET f == stack[1]
       IN  /\ obs.did \cap {"validate", "key", "registry", "references"} = {}
           /\ callerParams = params0
           /\ f.pc = "request" =>
                /\ obs.transport = 0
                /\ f.base_url = f.a.url /\ f.params = CallerParams(f)
                /\ f.headers = f.a.headers
           /\ f.pc # "request" =>
                /\ obs.transport = 1
                /\ req = [url |-> f.a.url, params |-> CallerParams(f),
                          headers |-> f.a.headers, fromfile |-> f.a.fromfile]
           /\ (f.pc = "done" /\ ~f.out.ret) => f.out.err \in PipelineErrors

\* an explicit url with a categoryscheme type, a dict key and an unknown agency,
\* on a client without agency
C7_Witness ==
    /\ Requested
    /\ Truthy(stack[1].a.url)
    /\ stack[1].a.resource_type = "categoryscheme"
    /\ stack[1].a.key.isDict
    /\ stack[1].a.agency = "XYZ"
    /\ stack[1].a.params = ParamsRef
    /\ agency = ""
    /\ stack[1].pc = "done" /\ stack[1].out.ret

\* the value of `references` in a dict, None when it has none
References(d) == IF Has(d, "references")
                 THEN (CHOOSE p \in d : p[1] = "references")[2] ELSE None
Others(d) == {p \in d : p[1] # "references"}

\* C8: for a URL built from the registry, the params handed to the Transport
\* are the caller's with `references` as the caller set it, or else `all` for
\* dataflow and datastructure with a resource id, `parentsandsiblings` for
\* categoryscheme, and absent otherwise; building again from them changes nothing.
C8_DefaultReferences ==
    (Requested /\ ~Truthy(stack[1].a.url) /\ Truthy(agency))
    => LET f == stack[1]
           given == IF f.a.params = NoneDict THEN {} ELSE params0
           sent == req.params[1]
           rt == f.a.resource_type
           rid == f.a.resource_id.id
       IN  /\ req.params # NoneDict
           /\ Others(sent) = Others(given)
           /\ Has(given, "references") => sent = given
           /\ ~Has(given, "references") =>
                References(sent) =
                    CASE rt \in {"dataflow", "datastructure"} /\ rid # "" -> "all"
                      [] rt = "categoryscheme" -> "parentsandsiblings"
                      [] OTHER -> None
           /\ DefaultReferences(sent, rt, rid) = sent
           /\ f.a.params # NoneDict => callerParams = sent

\* the caller's `references` survives a dataflow request with a resource id
C8_Witness ==
    /\ Requested
    /\ ~Truthy(stack[1].a.url)
    /\ Truthy(agency)
    /\ stack[1].a.resource_type = "dataflow"
    /\ stack[1].a.resource_id.id # ""
    /\ stack[1].a.params = ParamsRef
    /\ References(params0) = "children"
    /\ References(req.params[1]) = "children"

\* the header overrides the registry has for a resource type of an agency
Overrides(code, rt) ==
    IF rt \in DOMAIN _agencies[code][1].resources
    THEN <<_agencies[code][1].resources[rt].headers>> ELSE <<>>

\* C9: the Transport gets the caller's headers whenever they are a non-empty
\* mapping; it gets other headers only when the caller gave no headers, no
\* fromfile and no url, and then those are the overrides registered for the
\* resource type (the caller's empty headers when there are none).
C9_CallerHeadersWin ==
    Requested
    => LET f == stack[1]
           code == IF Truthy(f.a.agency) THEN f.a.agency ELSE agency
           defaults == ~TruthyDict(f.a.headers) /\ ~Truthy(f.a.fromfile)
                         /\ ~Truthy(f.a.url)
       IN  /\ TruthyDict(f.a.headers) => req.headers = f.a.headers
           /\ req.headers # f.a.headers => defaults
           /\ defaults =>
                /\ code \in DOMAIN _agencies /\ _agencies[code] # <<>>
                /\ req.headers = IF Overrides(code, f.a.resource_type) = <<>>
                                 THEN f.a.headers
                                 ELSE Overrides(code, f.a.resource_type)

\* a data request for agency ECB on the ESTAT client gets ECB's Accept header
C9_Witness ==
    /\ Requested
    /\ agency = "ESTAT"
    /\ stack[1].a.agency = "ECB"
    /\ stack[1].a.resource_type = "data"
    /\ stack[1].a.headers = Dict({})
    /\ req.headers = Dict(WIDUKIND_RESOURCES["data"].headers)

\* C10: with no url, no fromfile and no agency that is a non-empty registry code
\* (argument or client), a call with a valid resource type and a string key
\* fails with AmbiguousTarget, before any Transport invocation, and leaves the
\* cache as it was.
C10_NoTargetIsAmbiguousTarget ==
    (Acted /\ ~Truthy(stack[1].a.url) /\ ~Truthy(stack[1].a.fromfile)
           /\ ~Truthy(agency) /\ stack[1].a.agency \notin (DOMAIN _agencies \ {""})
           /\ stack[1].a.resource_type \in _resources /\ ~stack[1].a.key.isDict
           /\ stack[1].a.memcache \notin DOMAIN cache0)
    => /\ stack[1].pc = "done"
       /\ stack[1].out = Raise("AmbiguousTarget")
       /\ obs.transport = 0
       /\ cache = cache0

\* the errors of the steps after the URL is built
BuildErrors == {"InvalidResourceType", "InvalidKeyDimension", "KeyError", "TypeError",
                "AmbiguousTarget"}

\* C11: with no url and no fromfile, a resource type that is not a known kind
\* makes the call fail with InvalidResourceType after the validation alone: no
\* key resolution, no registry lookup, no Transport invocation, the cache and
\* the caller's params as they were.  With fromfile the same type is not
\* rejected, and with a string key the call goes on to the Transport.
C11_InvalidResourceTypeIsRejectedFirst ==
    (Acted /\ Len(stack) = 1 /\ ~Truthy(stack[1].a.url)
           /\ stack[1].a.resource_type \notin _resources
           /\ stack[1].a.memcache \notin DOMAIN cache0)
    => LET f == stack[1]
       IN  /\ ~Truthy(f.a.fromfile) =>
                /\ f.pc = "done"
                /\ f.out = Raise("InvalidResourceType")
                /\ obs = [NoObs EXCEPT !.did = {"validate"}]
                /\ req = NoReq
                /\ cache = cache0
                /\ callerParams = params0
           /\ Truthy(f.a.fromfile) =>
                /\ f.pc = "done" => f.out # Raise("InvalidResourceType")
                /\ (f.pc = "done" /\ ~f.a.key.isDict) => obs.transport = 1
                /\ (f.pc = "done" /\ ~f.a.key.isDict /\ ~f.out.ret) =>
                        f.out.err \notin BuildErrors

\* an unknown type with a dict key and an unknown agency is rejected for its type
C11_Witness ==
    /\ Done
    /\ ~Truthy(stack[1].a.url) /\ ~Truthy(stack[1].a.fromfile)
    /\ stack[1].a.resource_type = "bogus"
    /\ stack[1].a.key.isDict
    /\ stack[1].a.agency = "XYZ"
    /\ stack[1].out = Raise("InvalidResourceType")

\* C12: a freshly assembled Response that get returns has the caller's writer
\* when the caller gave one, and otherwise the data writer when its message
\* exposes data and the structure writer when it does not; also when it was
\* obtained through a footer redirect.
C12_WriterOfTheReturnedResponse ==
    (Done /\ stack[1].out.ret /\ stack[1].a.memcache \notin DOMAIN cache0)
    => LET f == stack[1]
           r == f.out.r
       IN  r.writer = IF Truthy(f.a.writer) THEN f.a.writer
                      ELSE IF r.msg.hasData THEN "pandasdmx.writer.data2pandas"
                      ELSE "pandasdmx.writer.structure2pd"

\* C13: every cache entry has a non-empty token as key and a status-200
\* Response as value; the cache changes only in the last step of a top-level
\* call that was given a token not yet cached and that returns a status-200
\* Response, by the addition of that Response under that token; a call that
\* raises, has no token or gets another status leaves the cache as it found
\* it; no entry is ever removed or replaced.
C13_CacheInvariant ==
    /\ [](/\ \A t \in DOMAIN cache : Truthy(t) /\ cache[t].status_code = 200
          /\ (Done /\ (~stack[1].out.ret \/ ~Truthy(stack[1].a.memcache)
                          \/ stack[1].out.r.status_code # 200)) => cache = cache0)
    /\ [][/\ \A t \in DOMAIN cache : t \in DOMAIN cache' /\ cache'[t] = cache[t]
          /\ cache' # cache =>
                /\ Len(stack) = 1
                /\ Truthy(stack[1].a.memcache)
                /\ stack[1].a.memcache \notin DOMAIN cache
                /\ stack'[1].pc = "done"
                /\ stack'[1].out.ret
                /\ stack'[1].out.r.status_code = 200
                /\ cache' = (stack[1].a.memcache :> stack'[1].out.r) @@ cache]_vars

\* a second token is stored next to the first
C13_Witness ==
    /\ Done
    /\ stack[1].a.memcache = "t2"
    /\ DOMAIN cache0 = {"t1"}
    /\ DOMAIN cache = {"t1", "t2"}
    /\ cache["t2"] = stack[1].out.r

\* C14: with fromfile and no explicit url, the URL handed to the Transport is
\* the empty string, with or without an agency on the client and whatever the
\* resource type, the resource id and the key are.
C14_FromFileMeansEmptyUrl ==
    (Requested /\ ~Truthy(stack[1].a.url) /\ Truthy(stack[1].a.fromfile))
    => /\ req.fromfile = stack[1].a.fromfile
       /\ req.url = ""

\* the agency segment of a built URL: the agency argument, else the client's
Code(f) == IF Truthy(f.a.agency) THEN f.a.agency ELSE agency

\* the keys a call may put in the URL: its string key, or what the key
\* resolution made of its dict key
KeySegments(f) ==
    IF f.a.key.isDict THEN {mk.v : mk \in {m \in MakeKeyOutcomes : m.ok}}
    ELSE {f.a.key.v}

RECURSIVE Slashed(_)
\* non-empty segments with a slash between each two
Slashed(segs) ==
    IF Len(segs) = 0 THEN ""
    ELSE IF Len(segs) = 1 THEN segs[1]
    ELSE segs[1] \o "/" \o Slashed(Tail(segs))

Present(seg) == seg # "" /\ seg # None

\* the URL of the segments (base, type, agency, id, key) of the call f
UrlOf(base, f, key) ==
    Slashed(SelectSeq(<<base, f.a.resource_type, Code(f), f.a.resource_id.id, key>>,
                      Present))

\* the Transport was invoked with a URL built for a client with an agency,
\* from a call without url and fromfile
Built ==
    /\ Requested
    /\ ~Truthy(stack[1].a.url) /\ ~Truthy(stack[1].a.fromfile)
    /\ Truthy(agency)

\* C15 as stated: a URL built from the registry is the non-empty ones of (base
\* URL, resource type, agency code, resource id, key) joined with slashes, where
\* the agency code is the agency argument or else the client's agency, and the
\* base URL is the registry entry of that same agency code.
C15_BaseUrlOfTheAgencySegment ==
    (Built /\ Code(stack[1]) \in DOMAIN _agencies)
    => \E key \in KeySegments(stack[1]) :
            req.url = UrlOf(_agencies[Code(stack[1])][1].url, stack[1], key)

\* C15, amended: a URL built from the registry is the non-empty ones of (base
\* URL, resource type, agency code, resource id, key) joined with slashes in
\* that order, where the agency code is the agency argument or else the
\* client's agency, and the base URL is the registry entry of the client's
\* agency; type data, agency ECB, id GDP, key A.FR on an ECB client give
\* <base>/data/ECB/GDP/A.FR, with no `references` unless the caller set one.
C15_BaseUrlOfTheClientAgency ==
    Built
    => LET f == stack[1]
       IN  /\ \E key \in KeySegments(f) :
                req.url = UrlOf(_agencies[agency][1].url, f, key)
           /\ (agency = "ECB" /\ f.a.resource_type = "data" /\ Code(f) = "ECB"
                  /\ f.a.resource_id.id = "GDP" /\ f.a.key = KeyStr("A.FR")) =>
                /\ req.url = WIDUKIND_API_URL \o "/data/ECB/GDP/A.FR"
                /\ f.a.params = NoneDict => req.params = Dict({})

\* the ESTAT client asked for a dataflow of agency ECB, without id and key
C15_Witness ==
    /\ Built
    /\ agency = "ESTAT"
    /\ stack[1].a.agency = "ECB"
    /\ stack[1].a.resource_type = "dataflow"
    /\ stack[1].a.resource_id.id = ""
    /\ stack[1].a.key = KeyStr("")
    /\ req.url = "http://ec.europa.eu/eurostat/SDMX/diss-web/rest/dataflow/ECB"

\* C16: when the reader is about to be invoked on a source that is not an
\* archive, the stream is that source at position 0, with or without tofile;
\* on an archive it is a stream over the first member, at its start.  When
\* tofile is given, the file holds the whole payload.
C16_ReaderStartsAtTheStart ==
    \A k \in 1..Len(stack) :
        LET f == stack[k]
        IN  /\ f.pc = "parse" =>
                /\ f.kind = "plain" => f.cur = "plain" /\ f.pos = 0
                /\ f.kind = "zip" => f.cur = "member" /\ f.pos = 0
            /\ (f.pc \in {"unwrap", "parse"} /\ Truthy(f.a.tofile)) =>
                /\ "write" \in obs.did
                /\ obs.wrote = PayloadLen

\* the reader is about to read, from its start, a plain source that was written
\* to tofile
C16_Witness ==
    /\ Running
    /\ Top.pc = "parse"
    /\ Top.kind = "plain" /\ Top.cur = "plain" /\ Top.pos = 0
    /\ Top.a.tofile = "out.xml"
    /\ obs.wrote = PayloadLen

\* the call f has nothing to follow: no footer, no URL-shaped line in it, or
\* footer handling turned off
NothingToFollow(f) ==
    \/ ~f.msg.hasFooter
    \/ \A j \in 1..Len(f.msg.footer) : ~is_url(f.msg.footer[j])
    \/ f.a.get_footer_url = <<>>
    \/ Attempts(f) = 0

\* C17: a call whose message has no footer, or a footer without URL-shaped
\* line, or whose footer handling is off (falsy tuple, or 0 attempts), invokes
\* the Transport once, never sleeps, and returns a Response of the message it
\* parsed with the URL, headers and status the Transport gave.  A footer URL
\* that is retrieved is the first URL-shaped line of the footer.
C17_NoFooterUrlNoRetry ==
    /\ (Done /\ stack[1].out.ret /\ stack[1].a.memcache \notin DOMAIN cache0
            /\ NothingToFollow(stack[1]))
       => LET f == stack[1]
              r == f.out.r
          IN  /\ obs.transport = 1 /\ obs.sleep = 0
              /\ f.ncall = 0 /\ f.nsleep = 0
              /\ r.msg = f.msg /\ r.src = f.sid
              /\ r.url = f.url /\ r.headers = f.resp_headers
              /\ r.status_code = f.status_code
    /\ \A k \in 1..Len(stack) :
          LET f == stack[k]
          IN  /\ (f.pc = "select" /\ NothingToFollow(f)) => f.ncall = 0 /\ f.nsleep = 0
              /\ f.footer_url # "" => f.footer_url = FirstUrlLine(f.msg.footer)
              /\ k > 1 => stack[k].a.url = FirstUrlLine(stack[k - 1].msg.footer)

\* a footer with URL lines and 0 attempts: one Transport invocation, no sleep
C17_Witness ==
    /\ Done
    /\ stack[1].a.get_footer_url = <<5, 0>>
    /\ stack[1].msg.footer = <<"Dataset too large", FooterUrlA, FooterUrlB>>
    /\ stack[1].out.ret
    /\ stack[1].out.r.msg = stack[1].msg
    /\ obs.transport = 1 /\ obs.sleep = 0

\* the call f found a footer URL and every one of its attempts raised
Exhausted(f) ==
    f.footer_url # "" /\ Attempts(f) >= 1 /\ f.caught = Attempts(f)

\* C18: a call whose attempts on the footer URL all raised returns a Response
\* of the footer-bearing message it parsed first, with the URL, headers and
\* status code of that first retrieval and the selected writer; when it has a
\* token and that status is 200 the Response is stored under the token, and a
\* later call with the token gets it back from the cache.
C18_ExhaustionReturnsThePlaceholder ==
    /\ (Done /\ Exhausted(stack[1]))
       => LET f == stack[1]
              r == f.out.r
          IN  /\ f.out.ret
              /\ f.msg.hasFooter /\ r.msg = f.msg /\ r.src = f.sid
              /\ r.url = f.url /\ r.headers = f.resp_headers
              /\ r.status_code = f.status_code
              /\ r.writer = IF Truthy(f.a.writer) THEN f.a.writer
                             ELSE IF f.msg.hasData THEN "pandasdmx.writer.data2pandas"
                             ELSE "pandasdmx.writer.structure2pd"
              /\ cache = IF Truthy(f.a.memcache) /\ f.status_code = 200
                         THEN (f.a.memcache :> r) @@ cache0
                         ELSE cache0
    /\ (Done /\ stack[1].a.memcache \in DOMAIN cache0)
       => /\ stack[1].out = Ret(cache0[stack[1].a.memcache])
          /\ obs.transport = 0

\* one attempt raised, and the placeholder is in the cache under the token
C18_Witness ==
    /\ Done
    /\ Exhausted(stack[1])
    /\ stack[1].caught = 1
    /\ stack[1].a.memcache = "t1"
    /\ stack[1].out.ret
    /\ stack[1].out.r.msg \in FooterMessages
    /\ "t1" \in DOMAIN cache /\ cache["t1"] = stack[1].out.r

C20_HeadersAndRegistryAreNeverMutated ==
    /\ dicts.shared = {}
    /\ dicts.registry = {<<"Accept", "application/vnd.sdmx.genericdata+xml;version=2.1">>}
    /\ stack = <<>> => dicts.caller = {}
    /\ stack # <<>> =>
          LET a == stack[1].a
          IN  /\ dicts.caller = IF TruthyDict(a.headers) THEN a.headers[1] ELSE {}
              /\ a.params = NoneDict => callerParams = params0
              /\ Others(callerParams) = Others(params0)
              /\ Has(params0, "references") => callerParams = params0

\* a second call, for data with the default headers, is sent the registry's
\* overrides and reuses the params that the first call added `references` to
C20_Witness ==
    /\ Requested
    /\ calls = 2
    /\ stack[1].a.resource_type = "data"
    /\ stack[1].a.headers = Dict({})
    /\ req.headers = Dict(WIDUKIND_RESOURCES["data"].headers)
    /\ stack[1].a.params = ParamsRef
    /\ params0 = {<<"references", "parentsandsiblings">>}
    /\ callerParams = params0
    /\ dicts.shared = {}
====
